---- MODULE Spec2Model ----
(***************************************************************************)
(* Model of src/callbacks.py: the two training-loop callbacks              *)
(* EarlyStopping and ModelCheckpoint, driven by a training loop that calls *)
(* on_epoch_begin / on_epoch_end once per epoch with epoch, logs, model.   *)
(*                                                                         *)
(* Floats are modelled by integers with two saturating values PInf and     *)
(* NInf (float("inf"), float("-inf")); arithmetic on the finite values is  *)
(* exact.  Strings are sequences of one-character strings.                 *)
(***************************************************************************)
EXTENDS Integers, Sequences, FiniteSets, TLC

\* ---------------------------------------------------------------- bounds
MaxESCalls == 4        \* EarlyStopping.on_epoch_end calls per run
MaxMCCalls == 3        \* ModelCheckpoint.on_epoch_end calls per run
MaxVal == 2            \* finite metric values are 0..MaxVal
MaxPatience == 3       \* patience is 0..MaxPatience
MaxDelta == 1          \* delta is -1..MaxDelta

\* ---------------------------------------------------------------- floats
PInf == 1000
NInf == -PInf

IsInf(x) == x = PInf \/ x = NInf

\* x + d and x - d for a finite d: inf +- d = inf
FAdd(x, d) == IF IsInf(x) THEN x ELSE x + d
FSub(x, d) == IF IsInf(x) THEN x ELSE x - d

\* ---------------------------------------------------------------- strings
K_val_loss == <<"v", "a", "l", "_", "l", "o", "s", "s">>
K_val_acc == <<"v", "a", "l", "_", "a", "c", "c">>
K_loss == <<"l", "o", "s", "s">>
K_empty == <<>>

\* the metric names the training loop may put into logs
LogKeys == {K_val_loss, K_loss, K_empty}
LogVals == (0..MaxVal) \cup {PInf}
\* the logs of one epoch; the value under the empty name is never read
\* (the empty name is never monitored), so it takes one value only
LogsUniverse ==
  {L \in UNION {[D -> LogVals] : D \in SUBSET LogKeys} :
     K_empty \in DOMAIN L => L[K_empty] = 0}
\* EarlyStopping reads metric_name only
ESLogsUniverse == UNION {[D -> LogVals] : D \in SUBSET {K_val_loss}}

\* dict.get(key, default)
DictGet(L, k, default) == IF k \in DOMAIN L THEN L[k] ELSE default

VARIABLES
  \* EarlyStopping
  patience, delta, counter, best_loss, es_best_epoch,
  \* ModelCheckpoint
  monitor, mode, save_best_only, best_metric, best_epoch,
  \* the file system: path -> sequence of the epochs that wrote the path
  files,
  \* the training loop: the callback it drives, the kwargs of the last call
  \* (logs as the call left it, argLogs as it was passed), number of
  \* on_epoch_end calls
  registered, epoch, logs, argLogs, calls,
  \* outcome of the last call
  lastOp, lastRet, raised, lastWrites,
  \* history: state before the last call and what the call read
  preCounter, preBest, lastVal, preMonitor, preMetric, preBestEpoch,
  \* history: shape of the sequence of monitored values so far
  runLen, runBase, noImpRun, decreasing, improving,
  \* history: the best monitored value seen and the first epoch that had it
  seenBest, seenBestEpoch

esVars == <<patience, delta, counter, best_loss, es_best_epoch>>
mcVars == <<monitor, mode, save_best_only, best_metric, best_epoch, files>>
esHist == <<preCounter, preBest, runLen, runBase, noImpRun, decreasing>>
mcHist == <<raised, lastWrites, preMonitor, preMetric, preBestEpoch, improving,
           seenBest, seenBestEpoch>>
vars == <<esVars, mcVars, registered, epoch, logs, argLogs, calls,
          lastOp, lastRet, lastVal, esHist, mcHist>>

\* the first epoch number the loop passes (0-based, 1-based, resumed run)
FirstEpochs == {0, 1, 9}

\* ======================================================== EarlyStopping
metric_name == K_val_loss

ES_init_best_loss_m == NInf
ES_init_best_loss == PInf

ESImproves(v, best, d) == v < FSub(best, d)

ESWorsens_m(v, best, d) == v >= FAdd(best, d)
ESWorsens(v, best, d) == v > FAdd(best, d)

ESCounterOnImprove_m(c) == c
ESCounterOnImprove(c) == 0

ESStop_m(c, p) == c > p
ESStop(c, p) == c >= p

\* logs after on_epoch_end has read it (logs.get only)
ESLogsAfter(L, k) == L

\* the constructor's arguments
Patiences == 0..MaxPatience
Deltas == (-1)..MaxDelta

ESConstruct(p, d) ==
  /\ patience = p
  /\ delta = d
  /\ counter = 0
  /\ best_loss = ES_init_best_loss
  /\ es_best_epoch = 0

ESHistInit ==
  /\ preCounter = 0
  /\ preBest = best_loss
  /\ runLen = 0
  /\ runBase = 0
  /\ noImpRun = 0
  /\ decreasing = TRUE

ES_on_epoch_begin ==
  /\ lastOp' = "es_begin"
  /\ lastRet' = FALSE
  /\ UNCHANGED <<esVars, mcVars, registered, epoch, logs, argLogs, calls,
                 lastVal, esHist, mcHist>>

ES_on_epoch_end(L) ==
  LET val_loss == DictGet(L, metric_name, PInf)
      improves == ESImproves(val_loss, best_loss, delta)
      worsens == ~improves /\ ESWorsens(val_loss, best_loss, delta)
  IN
  /\ calls < MaxESCalls
  /\ calls' = calls + 1
  /\ epoch' = epoch + 1
  /\ argLogs' = L
  /\ logs' = ESLogsAfter(L, metric_name)
  /\ best_loss' = IF improves THEN val_loss ELSE best_loss
  /\ counter' = IF improves THEN ESCounterOnImprove(counter)
                ELSE IF worsens THEN counter + 1
                ELSE counter
  /\ lastRet' = IF improves THEN FALSE
                ELSE IF worsens THEN ESStop(counter + 1, patience)
                ELSE FALSE
  /\ lastOp' = "es_end"
  /\ lastVal' = val_loss
  /\ preCounter' = counter
  /\ preBest' = best_loss
  /\ runLen' = IF worsens THEN runLen + 1 ELSE 0
  /\ runBase' = IF worsens /\ runLen > 0 THEN runBase ELSE counter
  /\ noImpRun' = IF improves THEN 0 ELSE noImpRun + 1
  /\ decreasing' = (decreasing /\ (calls = 0 \/ val_loss < FSub(lastVal, delta)))
  /\ UNCHANGED <<patience, delta, es_best_epoch, mcVars, mcHist, registered>>

\* ====================================================== ModelCheckpoint
Modes == {"min", "max", "other"}
Monitors == {K_val_loss, K_val_acc}

\* code points of the characters used in metric names
CharCode(c) ==
  CASE c = "_" -> 95 [] c = "a" -> 97 [] c = "c" -> 99 [] c = "l" -> 108
    [] c = "o" -> 111 [] c = "s" -> 115 [] c = "v" -> 118

\* Python's str comparison a < b: by code point, a proper prefix is smaller
RECURSIVE StrLess(_, _)
StrLess(a, b) ==
  IF b = <<>> THEN FALSE
  ELSE IF a = <<>> THEN TRUE
  ELSE IF CharCode(Head(a)) # CharCode(Head(b))
       THEN CharCode(Head(a)) < CharCode(Head(b))
  ELSE StrLess(Tail(a), Tail(b))

Min2(x, y) == IF x < y THEN x ELSE y

\* difflib.SequenceMatcher.find_longest_match on a[alo:ahi], b[blo:bhi]
\* (0-based, half-open; no junk): the longest common block, of those the one
\* starting earliest in a, of those the one starting earliest in b.
\* <<i, j, k>> with k = 0 when there is no common character.
FindLongestMatch(a, b, alo, ahi, blo, bhi) ==
  LET blocks == {t \in (alo..(ahi - 1)) \X (blo..(bhi - 1)) \X (1..Min2(ahi - alo, bhi - blo)) :
                   /\ t[1] + t[3] <= ahi
                   /\ t[2] + t[3] <= bhi
                   /\ \A n \in 0..(t[3] - 1) : a[t[1] + n + 1] = b[t[2] + n + 1]}
      Before(s, t) == \/ s[3] > t[3]
                      \/ s[3] = t[3] /\ s[1] < t[1]
                      \/ s[3] = t[3] /\ s[1] = t[1] /\ s[2] <= t[2]
  IN IF blocks = {} THEN <<alo, blo, 0>>
     ELSE CHOOSE s \in blocks : \A t \in blocks : Before(s, t)

\* sum of the sizes of SequenceMatcher.get_matching_blocks
RECURSIVE MatchCount(_, _, _, _, _, _)
MatchCount(a, b, alo, ahi, blo, bhi) ==
  LET m == FindLongestMatch(a, b, alo, ahi, blo, bhi)
  IN IF m[3] = 0 THEN 0
     ELSE m[3]
          + (IF alo < m[1] /\ blo < m[2]
             THEN MatchCount(a, b, alo, m[1], blo, m[2]) ELSE 0)
          + (IF m[1] + m[3] < ahi /\ m[2] + m[3] < bhi
             THEN MatchCount(a, b, m[1] + m[3], ahi, m[2] + m[3], bhi) ELSE 0)

\* SequenceMatcher.ratio() as a fraction <<numerator, denominator>>
Ratio(a, b) ==
  IF Len(a) + Len(b) = 0 THEN <<1, 1>>
  ELSE <<2 * MatchCount(a, b, 0, Len(a), 0, Len(b)), Len(a) + Len(b)>>

RatioLess(r, s) == r[1] * s[2] < s[1] * r[2]

\* get_close_matches(word, possibilities, n=1, cutoff=0): every possibility
\* passes the cutoff; nlargest(1, [(score, x)]) is the largest pair
GetCloseMatches(word, possibilities) ==
  IF possibilities = {} THEN <<>>
  ELSE LET Smaller(x, y) ==
             \/ RatioLess(Ratio(x, word), Ratio(y, word))
             \/ Ratio(x, word)[1] * Ratio(y, word)[2] = Ratio(y, word)[1] * Ratio(x, word)[2]
                /\ StrLess(x, y)
       IN <<CHOOSE x \in possibilities :
              \A y \in possibilities \ {x} : Smaller(y, x)>>

\* GetCloseMatches tabulated over the arguments on_epoch_end can pass it
CloseMatchTable ==
  {<<w, P, GetCloseMatches(w, P)>> : w \in Monitors, P \in SUBSET LogKeys}
CloseMatches(word, possibilities) ==
  (CHOOSE t \in CloseMatchTable : t[1] = word /\ t[2] = possibilities)[3]

\* str(n) for n >= 0
RECURSIVE Digits(_)
Digits(n) ==
  LET d == <<"0", "1", "2", "3", "4", "5", "6", "7", "8", "9">>
  IN IF n < 10 THEN <<d[n + 1]>> ELSE Digits(n \div 10) \o <<d[(n % 10) + 1]>>

\* os.path.join(a, b)
PathJoin(a, b) ==
  IF b # <<>> /\ Head(b) = "/" THEN b
  ELSE IF a = <<>> \/ a[Len(a)] = "/" THEN a \o b
  ELSE a \o <<"/">> \o b

\* the constructor's slurm_job_id and save_path
slurm_job_id == <<"j", "7">>
save_path == <<"o", "u", "t">>

BestPath == PathJoin(save_path, slurm_job_id \o <<".", "p", "t", "h">>)
EpochPath(e) ==
  PathJoin(save_path,
           slurm_job_id \o <<"_", "e", "p", "o", "c", "h", "_">> \o Digits(e)
             \o <<".", "p", "t", "h">>)

\* the path the call of epoch e saves to, when it saves
MCWritePath_always_best(sbo, e) == BestPath
MCWritePath_always_epoch(sbo, e) == EpochPath(e)
MCWritePath(sbo, e) == IF sbo THEN BestPath ELSE EpochPath(e)

MCImproved_m(md, cur, best) ==
  \/ md = "min" /\ cur <= best
  \/ md = "max" /\ cur >= best
MCImproved(md, cur, best) ==
  \/ md = "min" /\ cur < best
  \/ md = "max" /\ cur > best

\* best_metric and best_epoch are assigned only in the save_best_only branch
MCUpdatesBest_m(sbo, saves) == saves
MCUpdatesBest(sbo, saves) == sbo /\ saves

\* the value on_epoch_end returns
MCReturn_m(saved) == saved
MCReturn(saved) == FALSE

\* logs after on_epoch_end has read it ("in", keys(), logs.get only)
MCLogsAfter_m(L, k) == [x \in DOMAIN L \ {k} |-> L[x]]
MCLogsAfter(L, k) == L

\* torch.save(..., path) at epoch e
Save(fs, path, e) ==
  IF path \in DOMAIN fs THEN [fs EXCEPT ![path] = Append(@, e)]
  ELSE [p \in DOMAIN fs \cup {path} |-> IF p = path THEN <<e>> ELSE fs[p]]

MCConstruct(mon, md, sbo) ==
  /\ monitor = mon
  /\ mode = md
  /\ save_best_only = sbo
  /\ best_metric = IF md = "min" THEN PInf ELSE NInf
  /\ best_epoch = 0

MCHistInit ==
  /\ raised = "none"
  /\ lastWrites = <<>>
  /\ preMonitor = monitor
  /\ preMetric = best_metric
  /\ preBestEpoch = 0
  /\ improving = TRUE
  /\ seenBest = best_metric
  /\ seenBestEpoch = 0

\* "is strictly better than" between two monitored values
Better(md, x, y) == IF md = "min" THEN x < y ELSE x > y

MC_on_epoch_begin ==
  /\ raised = "none"
  /\ lastOp' = "mc_begin"
  /\ lastRet' = FALSE
  /\ UNCHANGED <<esVars, mcVars, registered, epoch, logs, argLogs, calls,
                 lastVal, esHist, mcHist>>

MC_on_epoch_end(L) ==
  LET e == epoch + 1
      lookup == e = 1 /\ monitor \notin DOMAIN L
      close_matches == CloseMatches(monitor, DOMAIN L)
      Hist == /\ preMonitor' = monitor
              /\ preMetric' = best_metric
              /\ preBestEpoch' = best_epoch
              /\ lastOp' = "mc_end"
              /\ calls' = calls + 1
              /\ epoch' = e
              /\ argLogs' = L
      Raise(exc) == /\ raised' = exc
                    /\ lastWrites' = <<>>
                    /\ lastRet' = FALSE
                    /\ logs' = L
                    /\ UNCHANGED <<mcVars, lastVal, improving,
                                   seenBest, seenBestEpoch>>
  IN
  /\ raised = "none"
  /\ calls < MaxMCCalls
  /\ Hist
  /\ UNCHANGED <<esVars, esHist, registered>>
  /\ IF lookup /\ close_matches = <<>>
     THEN Raise("IndexError")
     ELSE IF lookup /\ close_matches[1] = <<>>
     THEN Raise("ValueError")
     ELSE
       LET mon == IF lookup THEN close_matches[1] ELSE monitor
           current_metric == DictGet(L, mon, PInf)
           path == MCWritePath(save_best_only, e)
           saves == IF save_best_only
                    THEN MCImproved(mode, current_metric, best_metric)
                    ELSE TRUE
           updates == MCUpdatesBest(save_best_only, saves)
       IN
       /\ monitor' = mon
       /\ logs' = MCLogsAfter(L, mon)
       /\ lastRet' = MCReturn(saves)
       /\ best_metric' = IF updates THEN current_metric ELSE best_metric
       /\ best_epoch' = IF updates THEN e ELSE best_epoch
       /\ files' = IF saves THEN Save(files, path, e) ELSE files
       /\ lastWrites' = IF saves THEN <<path>> ELSE <<>>
       /\ raised' = "none"
       /\ lastVal' = current_metric
       /\ improving' = (improving /\
                          IF calls = 0
                          THEN Better(mode, current_metric,
                                      IF mode = "min" THEN PInf ELSE NInf)
                          ELSE Better(mode, current_metric, lastVal))
       /\ seenBest' = IF calls = 0 \/ Better(mode, current_metric, seenBest)
                      THEN current_metric ELSE seenBest
       /\ seenBestEpoch' = IF calls = 0 \/ Better(mode, current_metric, seenBest)
                           THEN e ELSE seenBestEpoch
       /\ UNCHANGED <<mode, save_best_only>>

\* ================================================================ runs
LoopInit ==
  /\ files = <<>>
  /\ epoch \in {f - 1 : f \in FirstEpochs}
  /\ logs = <<>>
  /\ argLogs = <<>>
  /\ calls = 0
  /\ lastOp = "init"
  /\ lastRet = FALSE
  /\ lastVal = PInf

InitES ==
  /\ \E p \in Patiences, d \in Deltas : ESConstruct(p, d)
  /\ MCConstruct(K_val_loss, "min", TRUE)
  /\ registered = "es"
  /\ LoopInit
  /\ ESHistInit
  /\ MCHistInit

NextES ==
  \/ ES_on_epoch_begin
  \/ \E L \in ESLogsUniverse : ES_on_epoch_end(L)

SpecES == InitES /\ [][NextES]_vars

InitMC ==
  /\ \E mon \in Monitors, md \in Modes, sbo \in BOOLEAN : MCConstruct(mon, md, sbo)
  /\ ESConstruct(1, 0)
  /\ registered = "mc"
  /\ LoopInit
  /\ ESHistInit
  /\ MCHistInit

NextMC ==
  \/ MC_on_epoch_begin
  \/ \E L \in LogsUniverse : MC_on_epoch_end(L)

SpecMC == InitMC /\ [][NextMC]_vars

\* a run of the training loop with either callback
Init == InitES \/ InitMC

Next ==
  \/ registered = "es" /\ NextES
  \/ registered = "mc" /\ NextMC

Spec == Init /\ [][Next]_vars

\* ============================================================== claims
InBand(v, best, d) == v >= FSub(best, d) /\ v <= FAdd(best, d)

\* C1 (as stated): in a run of consecutive on_epoch_end calls whose values
\* each exceed best_loss + delta (patience >= 1, delta >= 0), the calls
\* return False until the patience-th call of the run, which returns True.
C1_Original ==
  (lastOp = "es_end" /\ patience >= 1 /\ delta >= 0
     /\ runLen >= 1 /\ runLen <= patience)
    => (lastRet <=> runLen = patience)

\* C1 (amended): the same, for a run that starts with counter = 0: its
\* calls return False until the patience-th, which returns True.
C1_StopOnPatienceth ==
  (lastOp = "es_end" /\ patience >= 1 /\ delta >= 0 /\ runBase = 0
     /\ runLen >= 1 /\ runLen <= patience)
    => (lastRet <=> runLen = patience)

C1_Witness ==
  /\ lastOp = "es_end" /\ patience >= 2 /\ delta >= 0
  /\ runBase = 0 /\ runLen = patience /\ lastRet

\* C2 (as stated): the patience-th of patience consecutive on_epoch_end
\* calls without improvement (value not below best_loss - delta) returns
\* True; stated here for delta >= 0 and a finite value and best_loss.
C2_Original ==
  (lastOp = "es_end" /\ patience >= 1 /\ noImpRun = patience
     /\ delta >= 0 /\ ~IsInf(lastVal) /\ ~IsInf(preBest))
    => lastRet

C4_DecreasingNeverStops ==
  (lastOp = "es_end" /\ delta >= 0 /\ decreasing) => ~lastRet

C4_Witness ==
  /\ lastOp = "es_end" /\ delta >= 0 /\ decreasing
  /\ calls >= 3 /\ patience <= 1 /\ ~IsInf(preBest)

\* C5: an on_epoch_end call with value < best_loss - delta sets best_loss
\* to the value, resets counter to 0 and returns False, whatever the
\* counter was.
C5_ImprovementResets ==
  (lastOp = "es_end" /\ lastVal < FSub(preBest, delta))
    => (best_loss = lastVal /\ counter = 0 /\ ~lastRet)

C5_Witness ==
  /\ lastOp = "es_end" /\ lastVal < FSub(preBest, delta)
  /\ patience >= 1 /\ preCounter >= patience

\* C6 (as stated): when the monitored metric is missing from logs in an
\* epoch after epoch 1, EarlyStopping returns False and keeps its counter,
\* and ModelCheckpoint with save_best_only writes nothing and keeps
\* best_metric, in 'min' and in 'max' mode.
C6_Original ==
  /\ (lastOp = "es_end" /\ epoch > 1 /\ metric_name \notin DOMAIN logs)
       => (~lastRet /\ counter = preCounter)
  /\ (lastOp = "mc_end" /\ epoch > 1 /\ monitor \notin DOMAIN logs
        /\ save_best_only /\ mode \in {"min", "max"})
       => (lastWrites = <<>> /\ best_metric = preMetric)

\* C7 (as stated): on_epoch_end at epoch 1 with the monitored key absent
\* and logs empty raises ValueError, writes nothing and leaves monitor,
\* best_metric and best_epoch unchanged.
C7_Original ==
  (lastOp = "mc_end" /\ epoch = 1 /\ preMonitor \notin DOMAIN logs
     /\ DOMAIN logs = {})
    => /\ raised = "ValueError"
       /\ lastWrites = <<>>
       /\ monitor = preMonitor
       /\ best_metric = preMetric
       /\ best_epoch = preBestEpoch

\* <save_path>/<job_id>.pth
BestPathLit == <<"o", "u", "t", "/", "j", "7", ".", "p", "t", "h">>
\* <save_path>/<job_id>_epoch_10.pth
Epoch10PathLit ==
  <<"o", "u", "t", "/", "j", "7", "_", "e", "p", "o", "c", "h", "_",
    "1", "0", ".", "p", "t", "h">>

\* the last call wrote path p: the file's latest write is this epoch's
WroteNow(p) ==
  /\ lastWrites = <<p>>
  /\ p \in DOMAIN files
  /\ files[p][Len(files[p])] = epoch

\* C8: with save_best_only, an on_epoch_end call writes the weight file iff
\* its value is strictly less than best_metric ('min') or strictly greater
\* ('max'); an equal value writes nothing; a write sets best_metric to the
\* value and best_epoch to the epoch.
C8_SaveIffStrictlyBetter ==
  (lastOp = "mc_end" /\ raised = "none" /\ save_best_only)
    => /\ (lastWrites # <<>>) <=>
            \/ mode = "min" /\ lastVal < preMetric
            \/ mode = "max" /\ lastVal > preMetric
       /\ lastVal = preMetric => lastWrites = <<>>
       /\ lastWrites # <<>> =>
            (WroteNow(BestPathLit) /\ best_metric = lastVal /\ best_epoch = epoch)
       /\ lastWrites = <<>> =>
            (best_metric = preMetric /\ best_epoch = preBestEpoch)

C8_Witness ==
  /\ lastOp = "mc_end" /\ raised = "none" /\ save_best_only
  /\ lastVal = preMetric /\ ~IsInf(lastVal)
  /\ lastWrites = <<>> /\ BestPathLit \in DOMAIN files

\* C9: with save_best_only and mode 'min' or 'max', while the monitored
\* values strictly improve at every epoch (the first one on the initial
\* best_metric), every on_epoch_end call writes exactly once, and all
\* writes of the run go to <save_path>/<job_id>.pth.
C9_OneWritePerImprovement ==
  (lastOp = "mc_end" /\ raised = "none" /\ save_best_only
     /\ mode \in {"min", "max"} /\ improving)
    => /\ WroteNow(BestPathLit)
       /\ DOMAIN files = {BestPathLit}
       /\ Len(files[BestPathLit]) = calls

C9_Witness ==
  /\ lastOp = "mc_end" /\ raised = "none" /\ save_best_only
  /\ mode = "max" /\ improving /\ calls >= 3
  /\ BestPathLit \in DOMAIN files

\* every file was written once, and there is one file per call
OneFilePerCall ==
  /\ \A p \in DOMAIN files : Len(files[p]) = 1
  /\ Cardinality(DOMAIN files) = calls

C11_Original ==
  /\ (lastOp = "mc_end" /\ epoch = 1 /\ preMonitor \notin DOMAIN argLogs
        /\ DOMAIN argLogs # {})
       => (raised = "none" /\ monitor \in DOMAIN argLogs
             /\ lastVal = argLogs[monitor])
  /\ (lastOp = "mc_end" /\ raised = "none")
       => lastVal = DictGet(argLogs, monitor, PInf)
  /\ (lastOp = "mc_end" /\ (epoch # 1 \/ preMonitor \in DOMAIN argLogs))
       => monitor = preMonitor

\* C12: on_epoch_begin of either callback returns False and changes no
\* callback state, no file and no logs; ModelCheckpoint.on_epoch_end returns
\* False on every call that completes, whether or not it wrote.
C12_BeginNoOpEndFalse ==
  /\ [][lastOp' \in {"es_begin", "mc_begin"}
          => (~lastRet' /\ UNCHANGED <<esVars, mcVars, logs>>)]_vars
  /\ []((lastOp = "mc_end" /\ raised = "none") => ~lastRet)

C12_Witness ==
  /\ lastOp = "mc_begin" /\ ~lastRet
  /\ best_epoch > 0 /\ BestPathLit \in DOMAIN files /\ calls >= 2

\* C13 (as stated): on_epoch_end returns True exactly when the value
\* exceeds best_loss + delta and the incremented counter is >= patience;
\* stated here for patience >= 1.
C13_Original ==
  (lastOp = "es_end" /\ patience >= 1)
    => (lastRet <=>
          (lastVal > FAdd(preBest, delta) /\ preCounter + 1 >= patience))

\* C13 (amended): on_epoch_end returns True exactly when the value is not
\* an improvement (not below best_loss - delta), exceeds best_loss + delta
\* and the incremented counter is >= patience; otherwise it returns False,
\* also after an earlier call returned True.
C13_StopIffWorseAndOutOfPatience ==
  lastOp = "es_end"
    => /\ lastRet <=>
            /\ ~(lastVal < FSub(preBest, delta))
            /\ lastVal > FAdd(preBest, delta)
            /\ preCounter + 1 >= patience
       /\ lastRet => counter = preCounter + 1

C13_Witness ==
  /\ lastOp = "es_end" /\ ~lastRet
  /\ patience >= 1 /\ preCounter >= patience
  /\ InBand(lastVal, preBest, delta) /\ ~IsInf(lastVal)

\* initial best_metric of a mode
WorstMetric(md) == IF md = "min" THEN PInf ELSE NInf
\* number of on_epoch_end calls that returned
Seen == IF raised = "none" THEN calls ELSE calls - 1

BestIsSaved ==
  /\ best_metric = seenBest
  /\ best_epoch = seenBestEpoch
  /\ BestPathLit \in DOMAIN files
  /\ files[BestPathLit][Len(files[BestPathLit])] = best_epoch

\* C14 (as stated): with save_best_only, after any calls best_metric is the
\* minimum ('min') or maximum ('max') of the values seen (missing = +inf),
\* best_epoch the first epoch that had it, and <job_id>.pth was last
\* written in that epoch.
C14_Original ==
  (save_best_only /\ mode \in {"min", "max"} /\ Seen >= 1) => BestIsSaved

\* C14 (amended): the same once some value seen was strictly better than
\* the initial best_metric; until then best_metric and best_epoch keep
\* their initial values and no file is written.
C14_BestIsExtremum ==
  (save_best_only /\ mode \in {"min", "max"} /\ Seen >= 1)
    => IF Better(mode, seenBest, WorstMetric(mode))
       THEN BestIsSaved
       ELSE best_metric = WorstMetric(mode) /\ best_epoch = 0 /\ files = <<>>

C14_Witness ==
  /\ lastOp = "mc_end" /\ raised = "none" /\ save_best_only /\ mode = "min"
  /\ calls >= 3 /\ BestIsSaved
  /\ best_epoch < epoch /\ lastVal = best_metric /\ ~IsInf(lastVal)

\* C15: with delta >= 0, in every step best_loss does not increase,
\* counter stays >= 0, counter changes only by +1 (value above
\* best_loss + delta) or to 0 (improvement), and best_loss changes only in
\* a call that is an improvement and leaves counter at 0.
C15_BestAndCounterSteps ==
  [][delta >= 0 =>
       /\ best_loss' <= best_loss
       /\ counter' >= 0
       /\ counter' # counter =>
            \/ counter' = counter + 1 /\ lastVal' > FAdd(best_loss, delta)
            \/ counter' = 0 /\ lastVal' < FSub(best_loss, delta)
       /\ best_loss' # best_loss =>
            (counter' = 0 /\ lastVal' < FSub(best_loss, delta)
               /\ best_loss' = lastVal')]_vars

C15_Witness ==
  /\ lastOp = "es_end" /\ delta >= 0
  /\ preCounter >= 1 /\ counter = 0
  /\ best_loss < preBest /\ ~IsInf(preBest)

\* C16: after any on_epoch_begin or on_epoch_end call of either callback,
\* logs has the keys and values it was passed with.
C16_LogsReadOnly ==
  /\ [](logs = argLogs)
  /\ [][lastOp' \in {"es_begin", "mc_begin"} => logs' = logs]_vars

C16_Witness ==
  /\ lastOp = "mc_end" /\ raised = "none" /\ epoch = 1
  /\ monitor # preMonitor
  /\ logs = argLogs /\ Cardinality(DOMAIN logs) >= 2

\* C17: without save_best_only, best_metric and best_epoch keep their
\* initial values (+inf for 'min', -inf otherwise, and 0) whatever is called.
C17_NoBestWithoutSaveBestOnly ==
  ~save_best_only => (best_metric = WorstMetric(mode) /\ best_epoch = 0)

C17_Witness ==
  /\ lastOp = "mc_end" /\ raised = "none" /\ ~save_best_only
  /\ mode = "max" /\ calls >= 2 /\ ~IsInf(lastVal)
  /\ lastWrites # <<>>

====
